---- MODULE Spec2Model ----
EXTENDS Integers, Sequences, FiniteSets, TLC

(***************************************************************************)
(* Model of dual_disk_cpr_model.py: the cost, throughput and CPR formulas, *)
(* evaluate_all_configs, compute_ucpr and the best-configuration selection *)
(* of the main program.                                                    *)
(*                                                                         *)
(* The numbers of the program are Python floats, IEEE-754 binary64 values. *)
(* A finite double is kept as a record [s, m, e] standing for s * m * 2^e, *)
(* with s in {-1, 0, 1} and, for a nonzero value, a mantissa m of exactly  *)
(* Prec bits, so that two doubles are equal iff their records are.  Every  *)
(* operation is the exact result rounded to nearest, ties to even.  The    *)
(* mantissa does not fit a TLC integer, so naturals are little-endian      *)
(* sequences of limbs in base 2^LimbBits without leading zero limbs.  The  *)
(* exponent is unbounded: the values used stay far from overflow and       *)
(* underflow, and there are no infinities or NaNs.                         *)
(***************************************************************************)
Prec == 53
LimbBits == 15
Base == 2^LimbBits

Limb(x, i) == IF i <= Len(x) THEN x[i] ELSE 0

RECURSIVE Trim(_)
Trim(x) ==
    IF x = <<>> THEN x
    ELSE IF x[Len(x)] = 0 THEN Trim(SubSeq(x, 1, Len(x) - 1)) ELSE x

RECURSIVE NatOf(_)
NatOf(n) == IF n = 0 THEN <<>> ELSE <<n % Base>> \o NatOf(n \div Base)

RECURSIVE AddC(_, _, _, _)
AddC(x, y, i, c) ==
    IF i > Len(x) /\ i > Len(y)
    THEN (IF c = 0 THEN <<>> ELSE <<c>>)
    ELSE LET s == Limb(x, i) + Limb(y, i) + c
         IN  <<s % Base>> \o AddC(x, y, i + 1, s \div Base)

AddN(x, y) == AddC(x, y, 1, 0)

RECURSIVE SubC(_, _, _, _)
SubC(x, y, i, b) ==
    IF i > Len(x) THEN <<>>
    ELSE LET d == x[i] - Limb(y, i) - b
         IN  IF d < 0 THEN <<d + Base>> \o SubC(x, y, i + 1, 1)
                      ELSE <<d>> \o SubC(x, y, i + 1, 0)

\* x - y for x >= y
SubN(x, y) == Trim(SubC(x, y, 1, 0))

RECURSIVE CmpAt(_, _, _)
CmpAt(x, y, i) ==
    IF i = 0 THEN 0
    ELSE IF x[i] > y[i] THEN 1
    ELSE IF x[i] < y[i] THEN -1
    ELSE CmpAt(x, y, i - 1)

\* -1, 0, 1 as x < y, x = y, x > y
CmpN(x, y) ==
    IF Len(x) > Len(y) THEN 1
    ELSE IF Len(x) < Len(y) THEN -1
    ELSE CmpAt(x, y, Len(x))

RECURSIVE MulLimb(_, _, _, _)
MulLimb(x, d, i, c) ==
    IF i > Len(x) THEN (IF c = 0 THEN <<>> ELSE <<c>>)
    ELSE LET p == x[i] * d + c
         IN  <<p % Base>> \o MulLimb(x, d, i + 1, p \div Base)

Zeros(n) == [i \in 1..n |-> 0]

RECURSIVE MulAt(_, _, _)
MulAt(x, y, i) ==
    IF i > Len(y) THEN <<>>
    ELSE AddN(Zeros(i - 1) \o MulLimb(x, y[i], 1, 0), MulAt(x, y, i + 1))

MulN(x, y) == Trim(MulAt(x, y, 1))

\* x * 2^k
ShlN(x, k) ==
    IF x = <<>> THEN x
    ELSE Zeros(k \div LimbBits) \o MulLimb(x, 2^(k % LimbBits), 1, 0)

RECURSIVE ShrLimbs(_, _, _)
ShrLimbs(x, b, i) ==
    IF i > Len(x) THEN <<>>
    ELSE <<(x[i] \div 2^b) + (Limb(x, i + 1) % 2^b) * 2^(LimbBits - b)>>
         \o ShrLimbs(x, b, i + 1)

\* floor(x / 2^k)
ShrN(x, k) ==
    LET w == k \div LimbBits
    IN  IF w >= Len(x) THEN <<>>
        ELSE Trim(ShrLimbs(SubSeq(x, w + 1, Len(x)), k % LimbBits, 1))

RECURSIVE BitLenInt(_)
BitLenInt(n) == IF n = 0 THEN 0 ELSE 1 + BitLenInt(n \div 2)

BitLenN(x) ==
    IF x = <<>> THEN 0 ELSE LimbBits * (Len(x) - 1) + BitLenInt(x[Len(x)])

OddN(x) == x # <<>> /\ x[1] % 2 = 1

FZero == [s |-> 0, m |-> <<>>, e |-> 0]

\* round-to-nearest, ties-to-even, of s * (n + t) * 2^e, where n is a natural
\* and the sticky flag st says 0 < t < 1 (st only with BitLenN(n) > Prec)
RoundF(s, n, e, st) ==
    LET L == BitLenN(n)
    IN  IF n = <<>> THEN FZero
        ELSE IF L <= Prec
        THEN [s |-> s, m |-> ShlN(n, Prec - L), e |-> e - (Prec - L)]
        ELSE LET sh   == L - Prec
                 q    == ShrN(n, sh)
                 rem  == SubN(n, ShlN(q, sh))
                 c    == CmpN(rem, ShlN(<<1>>, sh - 1))
                 up   == c > 0 \/ (c = 0 /\ (st \/ OddN(q)))
                 q1   == IF up THEN AddN(q, <<1>>) ELSE q
             IN  IF BitLenN(q1) > Prec
                 THEN [s |-> s, m |-> ShrN(q1, 1), e |-> e + sh + 1]
                 ELSE [s |-> s, m |-> q1, e |-> e + sh]

\* int -> float
IntF(n) ==
    IF n = 0 THEN FZero
    ELSE IF n < 0 THEN RoundF(-1, NatOf(-n), 0, FALSE)
    ELSE RoundF(1, NatOf(n), 0, FALSE)

NegF(a) == [a EXCEPT !.s = -a.s]

Min(a, b) == IF a <= b THEN a ELSE b

\* a + b
AddF(a, b) ==
    IF a.s = 0 THEN b
    ELSE IF b.s = 0 THEN a
    ELSE LET e  == Min(a.e, b.e)
             x  == ShlN(a.m, a.e - e)
             y  == ShlN(b.m, b.e - e)
             c  == CmpN(x, y)
         IN  IF a.s = b.s THEN RoundF(a.s, AddN(x, y), e, FALSE)
             ELSE IF c = 0 THEN FZero
             ELSE IF c > 0 THEN RoundF(a.s, SubN(x, y), e, FALSE)
             ELSE RoundF(b.s, SubN(y, x), e, FALSE)

\* a - b
SubF(a, b) == AddF(a, NegF(b))

\* a * b
MulF(a, b) ==
    IF a.s = 0 \/ b.s = 0 THEN FZero
    ELSE RoundF(a.s * b.s, MulN(a.m, b.m), a.e + b.e, FALSE)

\* long division of r * 2^k by y (r < 2y), one quotient bit a step, until the
\* quotient q has Prec + 2 bits: <<quotient, remainder, k>>
RECURSIVE DivBits(_, _, _, _)
DivBits(r, y, q, k) ==
    LET ge == CmpN(r, y) >= 0
        q1 == IF ge THEN AddN(AddN(q, q), <<1>>) ELSE AddN(q, q)
        r1 == IF ge THEN SubN(r, y) ELSE r
    IN  IF BitLenN(q1) = Prec + 2 THEN <<q1, r1, k>>
        ELSE DivBits(AddN(r1, r1), y, q1, k + 1)

\* a / b for b # 0
DivF(a, b) ==
    IF a.s = 0 THEN FZero
    ELSE LET qr == DivBits(a.m, b.m, <<>>, 0)
         IN  RoundF(a.s * b.s, qr[1], a.e - b.e - qr[3], qr[2] # <<>>)

\* -1, 0, 1 as a < b, a = b, a > b
CmpF(a, b) ==
    IF a.s # b.s THEN (IF a.s < b.s THEN -1 ELSE 1)
    ELSE IF a.s = 0 THEN 0
    ELSE IF a.e > b.e THEN a.s
    ELSE IF a.e < b.e THEN -a.s
    ELSE a.s * CmpN(a.m, b.m)

\* a decimal literal n/d (n, d exactly representable): the nearest double
Dec(n, d) == DivF(IntF(n), IntF(d))

(***************************************************************************)
(* The formulas.                                                           *)
(***************************************************************************)
One == IntF(1)

\* @dataclass DiskType
DiskType(name, W, R, M) == [name |-> name, W |-> W, R |-> R, M |-> M]

\* C_server + V_i * M_i + V_j * M_j
cost_of_configuration(C, Vi, Vj, M_i, M_j) ==
    AddF(AddF(C, MulF(Vi, M_i)), MulF(Vj, M_j))

\* r / R_j + (1 - r) / W_i, for W_i # 0 and R_j # 0
Denominator(W_i, R_j, r) ==
    AddF(DivF(r, R_j), DivF(SubF(One, r), W_i))

\* a faulty variant: r is validated, and a ratio outside [0, 1] raises as well
throughput_raises_validating(W_i, R_j, r) ==
    \/ CmpF(r, FZero) < 0 \/ CmpF(r, One) > 0
    \/ R_j.s = 0 \/ W_i.s = 0 \/ Denominator(W_i, R_j, r).s = 0

\* a float division by zero raises ZeroDivisionError
throughput_raises(W_i, R_j, r) ==
    R_j.s = 0 \/ W_i.s = 0 \/ Denominator(W_i, R_j, r).s = 0

\* a faulty variant: the weights r and 1 - r on the wrong rates
throughput_weights_swapped(W_i, R_j, r) ==
    DivF(One, AddF(DivF(r, W_i), DivF(SubF(One, r), R_j)))

\* 1.0 / (r / R_j + (1 - r) / W_i)
throughput_of_configuration(W_i, R_j, r) ==
    DivF(One, Denominator(W_i, R_j, r))

cpr_raises(P, C_total) == C_total.s = 0

\* P / C_total
cpr(P, C_total) == DivF(P, C_total)

\* a faulty variant: the data disk in the outer loop
product_data_outer(n) ==
    [p \in 1..(n * n) |-> <<((p - 1) % n) + 1, ((p - 1) \div n) + 1>>]

\* a faulty variant: itertools.permutations(xs, 2), which leaves the self-pairs out
product_no_self_pairs(n) ==
    [p \in 1..(n * (n - 1)) |->
        LET i == ((p - 1) \div (n - 1)) + 1
            c == ((p - 1) % (n - 1)) + 1
        IN  <<i, IF c < i THEN c ELSE c + 1>>]

\* itertools.product(xs, repeat=2) over the indices of a sequence of length n:
\* the pairs <<i, j>> in lexicographic order, the rightmost advancing fastest
product(n) ==
    [p \in 1..(n * n) |-> <<((p - 1) \div n) + 1, ((p - 1) % n) + 1>>]

(***************************************************************************)
(* The inputs of a run, drawn from bounded sets.                           *)
(***************************************************************************)
MaxDisks == 2
MaxRatios == 2

\* the two disks of the main program, a disk MID with SSD's read rate and
\* price, and a disk NVM whose write and read rates are equal (and equal to
\* MID's write rate)
Catalogue ==
    << DiskType("HDD", IntF(30000), IntF(81000), Dec(49, 100000)),
       DiskType("SSD", IntF(39900), IntF(89000), Dec(42, 10000)),
       DiskType("MID", IntF(50000), IntF(89000), Dec(42, 10000)),
       DiskType("NVM", IntF(50000), IntF(50000), IntF(3)) >>

\* read ratios of the main program, one of them twice
RatioList == << IntF(1), IntF(0), Dec(95, 100), Dec(5, 10), Dec(5, 10) >>

\* <<C_server, V_i, V_j>>: the main program's, and one with V_i # V_j
ParamSets ==
    { << Dec(3696, 1000), IntF(150), IntF(150) >>,
      << IntF(1), IntF(1), IntF(2) >> }

\* the contiguous slices of s of lengths lo..hi
Slices(s, lo, hi) ==
    { SubSeq(s, w[1], w[1] + w[2] - 1) :
        w \in { v \in (1..Len(s)) \X (lo..hi) : v[1] + v[2] - 1 <= Len(s) } }

VARIABLES
    disks, C_server, V_i, V_j, r_values,   \* the arguments
    pc,                 \* where the program is
    pos, k,             \* the loop position: pair pos of product, ratio k
    results,            \* the local list of the running function
    df, ucpr_df,        \* the tables returned
    best_configs,       \* the rows selected at line 126
    call                \* a call of throughput_of_configuration: arguments, result

vars == << disks, C_server, V_i, V_j, r_values, pc, pos, k, results,
           df, ucpr_df, best_configs, call >>

Idle ==
    /\ disks = <<>> /\ r_values = <<>>
    /\ C_server = FZero /\ V_i = FZero /\ V_j = FZero

NoCall == call = <<>>

Start ==
    /\ pc = "evaluate_all_configs"
    /\ pos = 1 /\ k = 1
    /\ results = <<>> /\ df = <<>> /\ ucpr_df = <<>> /\ best_configs = <<>>

\* the main program on valid arguments: at least one disk, ratios in [0, 1]
Init ==
    /\ disks \in Slices(Catalogue, 1, MaxDisks)
    /\ r_values \in Slices(RatioList, 0, MaxRatios)
    /\ \E ps \in ParamSets : C_server = ps[1] /\ V_i = ps[2] /\ V_j = ps[3]
    /\ Start
    /\ NoCall

(***************************************************************************)
(* evaluate_all_configs (lines 49-68), one loop iteration a step.          *)
(***************************************************************************)
\* a faulty variant: the rates taken from the wrong disks (W_j and R_i)
config_row_rates_swapped(disk_i, disk_j, r, C, Vi, Vj) ==
    LET P       == throughput_of_configuration(disk_j.W, disk_i.R, r)
        C_total == cost_of_configuration(C, Vi, Vj, disk_i.M, disk_j.M)
    IN  [ log_disk    |-> disk_i.name,
          data_disk   |-> disk_j.name,
          r           |-> r,
          P_ops_per_s |-> P,
          C_total     |-> C_total,
          CPR         |-> cpr(P, C_total) ]

\* lines 57-67: the row of (disk_i, disk_j, r)
config_row(disk_i, disk_j, r, C, Vi, Vj) ==
    LET P       == throughput_of_configuration(disk_i.W, disk_j.R, r)
        C_total == cost_of_configuration(C, Vi, Vj, disk_i.M, disk_j.M)
    IN  [ log_disk    |-> disk_i.name,
          data_disk   |-> disk_j.name,
          r           |-> r,
          P_ops_per_s |-> P,
          C_total     |-> C_total,
          CPR         |-> cpr(P, C_total) ]

\* lines 57-59 raise ZeroDivisionError
config_row_raises(disk_i, disk_j, r, C, Vi, Vj) ==
    \/ throughput_raises(disk_i.W, disk_j.R, r)
    \/ cpr_raises(throughput_of_configuration(disk_i.W, disk_j.R, r),
                  cost_of_configuration(C, Vi, Vj, disk_i.M, disk_j.M))

\* the position after (pos, k) in the nested loops of lines 55-56
Advance ==
    IF k < Len(r_values) THEN pos' = pos /\ k' = k + 1
                         ELSE pos' = pos + 1 /\ k' = 1

evaluate_all_configs_row ==
    /\ pc = "evaluate_all_configs"
    /\ pos <= Len(product(Len(disks)))
    /\ r_values # <<>>
    /\ LET ij     == product(Len(disks))[pos]
           disk_i == disks[ij[1]]
           disk_j == disks[ij[2]]
           r      == r_values[k]
       IN  IF config_row_raises(disk_i, disk_j, r, C_server, V_i, V_j)
           THEN /\ pc' = "ZeroDivisionError"
                /\ results' = <<>>
                /\ UNCHANGED << pos, k >>
           ELSE /\ results' =
                     Append(results, config_row(disk_i, disk_j, r, C_server, V_i, V_j))
                /\ Advance
                /\ pc' = pc
    /\ UNCHANGED << disks, C_server, V_i, V_j, r_values, df, ucpr_df,
                    best_configs, call >>

\* line 68, and line 121 of the main program: compute_ucpr is entered
evaluate_all_configs_return ==
    /\ pc = "evaluate_all_configs"
    /\ pos > Len(product(Len(disks))) \/ r_values = <<>>
    /\ df' = results
    /\ results' = <<>>
    /\ pos' = 1 /\ k' = 1
    /\ pc' = "compute_ucpr"
    /\ UNCHANGED << disks, C_server, V_i, V_j, r_values, ucpr_df, best_configs, call >>

(***************************************************************************)
(* compute_ucpr (lines 73-91), one loop iteration a step.                  *)
(***************************************************************************)
\* a faulty variant: no equal-case branch
ucpr_always_general(W_i, R_j) == TRUE

\* line 82: the general expression is evaluated unless W_i == R_j
ucpr_uses_general(W_i, R_j) == W_i # R_j

\* lines 83 and 85 raise ZeroDivisionError
ucpr_raises(W_i, R_j, C_total) ==
    \/ C_total.s = 0
    \/ ucpr_uses_general(W_i, R_j) /\ (SubF(W_i, R_j).s = 0 \/ R_j.s = 0)

\* lines 82-85.  np.log has no finite model: the value of the general
\* expression is kept as its factors, factor * np.log(log_of) / C_total
ucpr_value(W_i, R_j, C_total) ==
    IF ucpr_uses_general(W_i, R_j)
    THEN [ branch  |-> "general",
           factor  |-> DivF(MulF(W_i, R_j), SubF(W_i, R_j)),
           log_of  |-> DivF(W_i, R_j),
           C_total |-> C_total ]
    ELSE [ branch |-> "equal", value |-> DivF(W_i, C_total) ]

\* lines 80-90: the row of (disk_i, disk_j)
ucpr_row(disk_i, disk_j, C, Vi, Vj) ==
    [ log_disk  |-> disk_i.name,
      data_disk |-> disk_j.name,
      UCPR      |-> ucpr_value(disk_i.W, disk_j.R,
                               cost_of_configuration(C, Vi, Vj, disk_i.M, disk_j.M)) ]

compute_ucpr_row ==
    /\ pc = "compute_ucpr"
    /\ pos <= Len(product(Len(disks)))
    /\ LET ij      == product(Len(disks))[pos]
           disk_i  == disks[ij[1]]
           disk_j  == disks[ij[2]]
           C_total == cost_of_configuration(C_server, V_i, V_j, disk_i.M, disk_j.M)
       IN  IF ucpr_raises(disk_i.W, disk_j.R, C_total)
           THEN /\ pc' = "ZeroDivisionError"
                /\ results' = <<>>
                /\ pos' = pos
           ELSE /\ results' = Append(results, ucpr_row(disk_i, disk_j, C_server, V_i, V_j))
                /\ pos' = pos + 1
                /\ pc' = pc
    /\ UNCHANGED << disks, C_server, V_i, V_j, r_values, k, df, ucpr_df,
                    best_configs, call >>

\* line 91, back in the main program before line 126
compute_ucpr_return ==
    /\ pc = "compute_ucpr"
    /\ pos > Len(product(Len(disks)))
    /\ ucpr_df' = results
    /\ results' = <<>>
    /\ pos' = 1
    /\ pc' = "best_configs"
    /\ UNCHANGED << disks, C_server, V_i, V_j, r_values, k, df, best_configs, call >>

(***************************************************************************)
(* Line 126: best_configs = df.loc[df.groupby("r")["CPR"].idxmax()]        *)
(***************************************************************************)
\* the group keys of groupby("r"): the distinct r, ascending
RECURSIVE Ascending(_)
Ascending(S) ==
    IF S = {} THEN <<>>
    ELSE LET mn == CHOOSE a \in S : \A b \in S : CmpF(a, b) <= 0
         IN  <<mn>> \o Ascending(S \ {mn})

groupby_r(table) == Ascending({ table[p].r : p \in 1..Len(table) })

\* Series.idxmax within the group of r: scanning rows p.. in order, best is
\* replaced only by a strictly greater CPR, so the first maximum is kept
RECURSIVE idxmax_from(_, _, _, _)
idxmax_from(table, r, p, best) ==
    IF p > Len(table) THEN best
    ELSE IF table[p].r = r /\ (best = 0 \/ CmpF(table[p].CPR, table[best].CPR) > 0)
    THEN idxmax_from(table, r, p + 1, p)
    ELSE idxmax_from(table, r, p + 1, best)

\* a faulty variant: the last maximum of the group
idxmax_last(table, r) ==
    CHOOSE p \in 1..Len(table) :
        /\ table[p].r = r
        /\ \A q \in 1..Len(table) :
              table[q].r = r =>
                  \/ CmpF(table[q].CPR, table[p].CPR) < 0
                  \/ (CmpF(table[q].CPR, table[p].CPR) = 0 /\ q <= p)

idxmax(table, r) == idxmax_from(table, r, 1, 0)

\* the selected rows with their index labels (labels count from 0)
select_best(table) ==
    LET keys == groupby_r(table)
    IN  [ g \in 1..Len(keys) |->
            LET p == idxmax(table, keys[g])
            IN  [ index |-> p - 1, row |-> table[p] ] ]

\* a table built from an empty list has no column "r": groupby raises KeyError
select_best_configs ==
    /\ pc = "best_configs"
    /\ IF df = <<>>
       THEN pc' = "KeyError" /\ UNCHANGED best_configs
       ELSE pc' = "done" /\ best_configs' = select_best(df)
    /\ UNCHANGED << disks, C_server, V_i, V_j, r_values, pos, k, results, df,
                    ucpr_df, call >>

Next ==
    \/ evaluate_all_configs_row
    \/ evaluate_all_configs_return
    \/ compute_ucpr_row
    \/ compute_ucpr_return
    \/ select_best_configs

Spec == Init /\ [][Next]_vars

(***************************************************************************)
(* evaluate_all_configs alone, on arguments outside the documented domain: *)
(* no disk, a read ratio outside [0, 1], or a negative server cost.        *)
(***************************************************************************)
\* TRI's write rate is a third of its (and HDD's) read rate: at r = 1.5 the
\* denominator r / R_j + (1 - r) / W_i is zero
InvalidCatalogue ==
    << DiskType("HDD", IntF(30000), IntF(81000), Dec(49, 100000)),
       DiskType("TRI", IntF(27000), IntF(81000), IntF(3)),
       DiskType("NVM", IntF(50000), IntF(50000), IntF(3)) >>

InvalidRatioList == << Dec(5, 10), Dec(15, 10), Dec(-25, 100) >>

\* with C_server = -6 and two disks of price 3 the total cost is zero
InvalidParamSets ==
    { << Dec(3696, 1000), IntF(150), IntF(150) >>,
      << IntF(-6), IntF(1), IntF(1) >> }

OutsideUnitInterval(r) == CmpF(r, FZero) < 0 \/ CmpF(r, One) > 0

InvalidArguments ==
    \/ disks = <<>>
    \/ \E q \in 1..Len(r_values) : OutsideUnitInterval(r_values[q])
    \/ C_server.s < 0

InitInvalid ==
    /\ disks \in Slices(InvalidCatalogue, 0, MaxDisks)
    /\ r_values \in Slices(InvalidRatioList, 0, MaxRatios)
    /\ \E ps \in InvalidParamSets : C_server = ps[1] /\ V_i = ps[2] /\ V_j = ps[3]
    /\ InvalidArguments
    /\ Start
    /\ NoCall

NextEvaluate ==
    \/ evaluate_all_configs_row
    \/ evaluate_all_configs_return

SpecInvalid == InitInvalid /\ [][NextEvaluate]_vars

(***************************************************************************)
(* throughput_of_configuration alone: two calls with the same rates and    *)
(* read ratios r1 <= r2.                                                   *)
(***************************************************************************)
\* the next double above a positive f whose mantissa is not all ones
NextUp(f) == [f EXCEPT !.m = AddN(f.m, <<1>>)]

Rates == { IntF(1), IntF(2), IntF(49), IntF(30000), IntF(81000) }

Ratios ==
    { IntF(0), Dec(8, 100), NextUp(Dec(8, 100)), Dec(15, 100), NextUp(Dec(15, 100)),
      Dec(32, 100), NextUp(Dec(32, 100)), IntF(1) }

InitThroughput ==
    /\ Idle
    /\ pc = "throughput_of_configuration"
    /\ pos = 1 /\ k = 1
    /\ results = <<>> /\ df = <<>> /\ ucpr_df = <<>> /\ best_configs = <<>>
    /\ \E W \in Rates, R \in Rates, r1 \in Ratios, r2 \in Ratios :
          /\ CmpF(r1, r2) <= 0
          /\ call = [ W |-> W, R |-> R, r1 |-> r1, r2 |-> r2,
                      P1 |-> FZero, P2 |-> FZero ]

call_throughput ==
    /\ pc = "throughput_of_configuration"
    /\ call' = [ call EXCEPT
                   !.P1 = throughput_of_configuration(call.W, call.R, call.r1),
                   !.P2 = throughput_of_configuration(call.W, call.R, call.r2) ]
    /\ pc' = "returned"
    /\ UNCHANGED << disks, C_server, V_i, V_j, r_values, pos, k, results, df,
                    ucpr_df, best_configs >>

NextThroughput == call_throughput

SpecThroughput == InitThroughput /\ [][NextThroughput]_vars

(***************************************************************************)
(* Properties.                                                             *)
(***************************************************************************)
n == Len(disks)
m == Len(r_values)

\* evaluate_all_configs has returned its table df
Evaluated == pc \in { "compute_ucpr", "best_configs", "done", "KeyError" }

\* compute_ucpr has returned its table ucpr_df
UcprReturned == pc \in { "best_configs", "done", "KeyError" }

RowKey(row) == << row.log_disk, row.data_disk, row.r >>
TripleKey(i, j, q) == << disks[i].name, disks[j].name, r_values[q] >>
Triples == (1..n) \X (1..n) \X (1..m)

\* the index triple of the row at position p (from 1) of the nested loops
TripleAt(p) ==
    << ((p - 1) \div (n * m)) + 1, (((p - 1) \div m) % n) + 1, ((p - 1) % m) + 1 >>

\* the table a function is building, or has returned
Rows == IF pc = "evaluate_all_configs" THEN results ELSE df
UcprRows == IF pc = "compute_ucpr" THEN results ELSE ucpr_df

\* C1: evaluate_all_configs returns exactly n*n*m rows, and every
\* combination (log disk i, data disk j, read ratio r_values[q]) appears in
\* the table as often as among the index triples: none dropped, none added.
C1_CrossProductComplete ==
    Evaluated =>
        /\ Len(df) = n * n * m
        /\ \A key \in { RowKey(df[p]) : p \in 1..Len(df) }
                       \cup { TripleKey(t[1], t[2], t[3]) : t \in Triples } :
              Cardinality({ p \in 1..Len(df) : RowKey(df[p]) = key })
                = Cardinality({ t \in Triples : TripleKey(t[1], t[2], t[3]) = key })

C1_Witness ==
    /\ pc = "done" /\ n = 2 /\ m = 2 /\ Len(df) = 8
    /\ \E p \in 1..8 : df[p].log_disk = df[p].data_disk
    /\ \E p \in 1..8 : df[p].log_disk = "HDD" /\ df[p].data_disk = "SSD"
    /\ \E p \in 1..8 : df[p].log_disk = "SSD" /\ df[p].data_disk = "HDD"

\* C2: the rows are emitted log disk outermost, data disk in the middle,
\* read ratio innermost, in input order: the row of (i, j, q) (from 1) is at
\* position ((i-1)*n + (j-1))*m + q, while the table is built and once returned.
C2_RowOrder ==
    /\ \A p \in 1..Len(Rows) :
          LET t == TripleAt(p) IN RowKey(Rows[p]) = TripleKey(t[1], t[2], t[3])
    /\ Evaluated =>
          \A t \in Triples :
              LET p == ((t[1] - 1) * n + (t[2] - 1)) * m + t[3]
              IN  p <= Len(df) /\ RowKey(df[p]) = TripleKey(t[1], t[2], t[3])

C2_Witness ==
    /\ pc = "done" /\ n = 2 /\ m = 2
    /\ disks[1].name # disks[2].name /\ r_values[1] # r_values[2]
    /\ RowKey(df[4]) = TripleKey(1, 2, 2)
    /\ RowKey(df[5]) = TripleKey(2, 1, 1)

\* |a * b - 1| <= 2^-t, exactly, for positive doubles a and b
ProductNearOne(a, b, t) ==
    LET e  == a.e + b.e
        N  == MulN(a.m, b.m)
        O  == ShlN(<<1>>, -e)
        d  == IF CmpN(N, O) >= 0 THEN SubN(N, O) ELSE SubN(O, N)
    IN  -e > t /\ CmpN(d, ShlN(<<1>>, -e - t)) <= 0

\* the row evaluate_all_configs has just appended
Emitted == pc = "evaluate_all_configs" /\ results # <<>>

\* C3 as claimed: the last emitted row, of (i, j, r), carries both names, a
\* throughput P with P * (r/R_j + (1-r)/W_i) = 1 from the log disk's W and
\* the data disk's R, the cost C_server + V_i*M_i + V_j*M_j, CPR = P / cost,
\* and the same cost as the other rows of its pair.
C3_Original ==
    Emitted =>
        LET p   == Len(results)
            row == results[p]
            t   == TripleAt(p)
            di  == disks[t[1]]
            dj  == disks[t[2]]
            r   == r_values[t[3]]
        IN  /\ row.log_disk = di.name /\ row.data_disk = dj.name /\ row.r = r
            /\ MulF(row.P_ops_per_s, AddF(DivF(r, dj.R), DivF(SubF(One, r), di.W))) = One
            /\ row.C_total = AddF(AddF(C_server, MulF(V_i, di.M)), MulF(V_j, dj.M))
            /\ row.CPR = DivF(row.P_ops_per_s, row.C_total)
            /\ \A q \in 1..p :
                  (TripleAt(q)[1] = t[1] /\ TripleAt(q)[2] = t[2])
                      => results[q].C_total = row.C_total

\* C3, amended: as C3_Original, but P is the double nearest to
\* 1 / (r/R_j + (1-r)/W_i), the denominator evaluated in doubles, so that
\* P * (r/R_j + (1-r)/W_i) is 1 up to one rounding: within 2^-53, exactly.
C3_RowValues ==
    Emitted =>
        LET p   == Len(results)
            row == results[p]
            t   == TripleAt(p)
            di  == disks[t[1]]
            dj  == disks[t[2]]
            r   == r_values[t[3]]
            x   == AddF(DivF(r, dj.R), DivF(SubF(One, r), di.W))
        IN  /\ row.log_disk = di.name /\ row.data_disk = dj.name /\ row.r = r
            /\ row.P_ops_per_s = DivF(One, x)
            /\ ProductNearOne(row.P_ops_per_s, x, Prec)
            /\ row.C_total = AddF(AddF(C_server, MulF(V_i, di.M)), MulF(V_j, dj.M))
            /\ row.CPR = DivF(row.P_ops_per_s, row.C_total)
            /\ \A q \in 1..p :
                  (TripleAt(q)[1] = t[1] /\ TripleAt(q)[2] = t[2])
                      => results[q].C_total = row.C_total

\* a row of two different disks, V_i # V_j, 0 < r < 1, whose P times the
\* denominator rounds to a double other than 1
C3_Witness ==
    /\ Emitted
    /\ V_i # V_j
    /\ LET p   == Len(results)
           row == results[p]
           t   == TripleAt(p)
       IN  /\ t[1] # t[2] /\ t[3] > 1
           /\ disks[t[1]].W # disks[t[2]].W
           /\ CmpF(row.r, FZero) > 0 /\ CmpF(row.r, One) < 0
           /\ MulF(row.P_ops_per_s,
                   Denominator(disks[t[1]].W, disks[t[2]].R, row.r)) # One

\* a zero divisor at the triple (i, j, q): the denominator of the throughput,
\* or the total cost
ZeroDivisor(i, j, q) ==
    \/ AddF(DivF(r_values[q], disks[j].R),
            DivF(SubF(One, r_values[q]), disks[i].W)).s = 0
    \/ AddF(AddF(C_server, MulF(V_i, disks[i].M)), MulF(V_j, disks[j].M)).s = 0

DiskNamed(name) == CHOOSE d \in { disks[i] : i \in 1..n } : d.name = name

\* C5: compute_ucpr never ends in an error; a row whose log disk's W equals
\* its data disk's R has UCPR = W / C_total by the equal-case branch, and the
\* general expression is used for a row iff W differs from R, where its
\* denominator W - R is not zero.
C5_EqualCase ==
    /\ pc # "ZeroDivisionError"
    /\ pc \in { "compute_ucpr", "best_configs", "done", "KeyError" } =>
          \A p \in 1..Len(UcprRows) :
              LET row == UcprRows[p]
                  di  == DiskNamed(row.log_disk)
                  dj  == DiskNamed(row.data_disk)
              IN  /\ row.UCPR.branch = "general" <=> di.W # dj.R
                  /\ row.UCPR.branch = "general" => SubF(di.W, dj.R).s # 0
                  /\ di.W = dj.R =>
                        row.UCPR =
                          [ branch |-> "equal",
                            value  |-> DivF(di.W,
                                AddF(AddF(C_server, MulF(V_i, di.M)), MulF(V_j, dj.M))) ]

\* W = R = 50000 and C_total = 10 give exactly 5000, for a self-pair; and a
\* pair of two different disks with W_i = R_j took the equal-case branch too
C5_Witness ==
    /\ pc = "done"
    /\ \E p \in 1..Len(ucpr_df) :
          /\ ucpr_df[p].log_disk = "NVM" /\ ucpr_df[p].data_disk = "NVM"
          /\ ucpr_df[p].UCPR = [ branch |-> "equal", value |-> IntF(5000) ]
    /\ \E p \in 1..Len(ucpr_df) :
          /\ ucpr_df[p].log_disk = "MID" /\ ucpr_df[p].data_disk = "NVM"
          /\ ucpr_df[p].UCPR.branch = "equal"
    /\ \E p \in 1..Len(ucpr_df) : ucpr_df[p].UCPR.branch = "general"

\* C6: compute_ucpr returns n*n rows, the row of (i, j) (from 1) at position
\* (i-1)*n + j with the names of disk i and disk j: the order of
\* evaluate_all_configs without the read ratios.
C6_UcprOrder ==
    /\ pc \in { "compute_ucpr", "best_configs", "done", "KeyError" } =>
          \A p \in 1..Len(UcprRows) :
              /\ UcprRows[p].log_disk = disks[((p - 1) \div n) + 1].name
              /\ UcprRows[p].data_disk = disks[((p - 1) % n) + 1].name
    /\ UcprReturned =>
          /\ Len(ucpr_df) = n * n
          /\ \A i \in 1..n, j \in 1..n :
                /\ ucpr_df[(i - 1) * n + j].log_disk = disks[i].name
                /\ ucpr_df[(i - 1) * n + j].data_disk = disks[j].name
          /\ \A p \in 1..Len(df) :
                /\ df[p].log_disk = ucpr_df[((p - 1) \div m) + 1].log_disk
                /\ df[p].data_disk = ucpr_df[((p - 1) \div m) + 1].data_disk

C6_Witness ==
    /\ pc = "done" /\ n = 2 /\ Len(ucpr_df) = 4
    /\ ucpr_df[2].log_disk = disks[1].name /\ ucpr_df[2].data_disk = disks[2].name
    /\ ucpr_df[3].log_disk = disks[2].name /\ ucpr_df[3].data_disk = disks[1].name
    /\ ucpr_df[1].log_disk = ucpr_df[1].data_disk
    /\ disks[1].name # disks[2].name

\* a <= b * (1 + 2^-t), exactly, for positive doubles a and b
LeqWithin(a, b, t) ==
    LET e == Min(a.e + t, b.e)
    IN  CmpN(ShlN(a.m, a.e + t - e),
             ShlN(MulN(b.m, AddN(ShlN(<<1>>, t), <<1>>)), b.e - e)) <= 0

\* each of a and b is at most the other times (1 + 2^-t)
Within(a, b, t) == LeqWithin(a, b, t) /\ LeqWithin(b, a, t)

Returned == pc = "returned"

\* C7 as claimed: throughput_of_configuration(W, R, 0) = W and
\* throughput_of_configuration(W, R, 1) = R.
C7_Original ==
    Returned =>
        /\ call.r1 = FZero => call.P1 = call.W
        /\ call.r2 = One => call.P2 = call.R

\* C7, amended: throughput_of_configuration(W, R, 0) is W and
\* throughput_of_configuration(W, R, 1) is R up to the rounding of the two
\* divisions 1 / (1 / x): within a factor 1 + 2^-51.
C7_Endpoints ==
    Returned =>
        /\ call.r1 = FZero => Within(call.P1, call.W, 51)
        /\ call.r2 = One => Within(call.P2, call.R, 51)

\* calls at r = 0 and r = 1 with different rates, one result exact and the
\* other not
C7_Witness ==
    /\ Returned
    /\ call.r1 = FZero /\ call.r2 = One
    /\ call.W = IntF(49) /\ call.R = IntF(30000)
    /\ call.P1 # call.W /\ call.P2 = call.R

\* C8 as claimed: for r1 <= r2 the throughput does not decrease from r1 to
\* r2 when W < R, and does not increase when W > R.
C8_Original ==
    Returned =>
        /\ CmpF(call.W, call.R) < 0 => CmpF(call.P1, call.P2) <= 0
        /\ CmpF(call.W, call.R) > 0 => CmpF(call.P1, call.P2) >= 0

\* C8, amended: the throughput is monotonic in r up to rounding: for
\* r1 <= r2, P(r1) <= P(r2) * (1 + 2^-49) when W < R, and
\* P(r2) <= P(r1) * (1 + 2^-49) when W > R.
C8_Monotonic ==
    Returned =>
        /\ CmpF(call.W, call.R) < 0 => LeqWithin(call.P1, call.P2, 49)
        /\ CmpF(call.W, call.R) > 0 => LeqWithin(call.P2, call.P1, 49)

\* W < R and r1 < r2 a rounding step apart, the throughput one step lower at r2
C8_Witness ==
    /\ Returned
    /\ CmpF(call.W, call.R) < 0
    /\ call.r2 = NextUp(call.r1)
    /\ CmpF(call.P1, call.P2) > 0

\* C10: for each distinct r of the table exactly one row is selected; its CPR
\* is the greatest of the rows with that r, and it is the first row with
\* that CPR among them.
C10_BestConfigs ==
    pc = "done" =>
        /\ \A g \in 1..Len(best_configs) :
              LET p == best_configs[g].index + 1
              IN  /\ p \in 1..Len(df)
                  /\ best_configs[g].row = df[p]
                  /\ \A q \in 1..Len(df) :
                        df[q].r = df[p].r =>
                            /\ CmpF(df[q].CPR, df[p].CPR) <= 0
                            /\ q < p => CmpF(df[q].CPR, df[p].CPR) < 0
        /\ \A q \in 1..Len(df) :
              Cardinality({ g \in 1..Len(best_configs) :
                              best_configs[g].row.r = df[q].r }) = 1

\* two ratios, and for one of them the greatest CPR is shared by a selected
\* row that is not the first of the table and a later row
C10_Witness ==
    /\ pc = "done"
    /\ Len(best_configs) = 2
    /\ \E g \in 1..2 :
          LET p == best_configs[g].index + 1
          IN  /\ p > 1
              /\ \E q \in (p + 1)..Len(df) :
                    df[q].r = df[p].r /\ df[q].CPR = df[p].CPR
              /\ \E q \in 1..(p - 1) : df[q].r = df[p].r
====
